---- MODULE Spec2Model ----
(***************************************************************************)
(* Model of src/mic_array.py: the Mic value object and the MicArray        *)
(* container (construction from a JSON array, validate_names, gen_names,   *)
(* get_sample_freq, __contains__, set_mic_locs).                           *)
(*                                                                         *)
(* Python values that can meet in one place (a mic name is None, an int or *)
(* a str; a return value is None, an int or a bool) are tagged pairs       *)
(* <<type, payload>>.  A Mic reference is the 1-based position of the Mic  *)
(* in mics; the 0-based Python index of that Mic is the position minus 1.  *)
(***************************************************************************)
EXTENDS Integers, Sequences, FiniteSets, TLC

\* ---------------------------------------------------------------- bounds
\* Largest number of objects in the JSON array of the configuration file.
MaxMics == 3

\* ---------------------------------------------------------- Python values
PyNone == <<"NoneType", 0>>
PyInt(i) == <<"int", i>>
PyStr(i) == <<"str", i>>
PyTrue == <<"bool", 1>>
PyFalse == <<"bool", 0>>

\* Names a configuration file gives to a mic: the integer 0 (which gen_names
\* also produces) and the string "A".
JsonNames == {PyInt(0), PyStr(1)}
\* The names of the sample-rate runs.
OneName == {PyStr(1)}
\* Sample rates in the configuration files of the name/position runs and of
\* the sample-rate runs.
OneFreq == {1}
FreqSet == {1, 2}
\* Positions: a coordinate triple is abstracted to one number, held in a
\* Python list (as json.load gives it) or in a numpy array.
PyList(p) == <<"list", p>>
NdArray(p) == <<"ndarray", p>>
JsonPos == {PyList(0)}
\* Names a caller asks about or passes to set_mic_locs.
CallNames == {PyNone, PyInt(0), PyStr(1)}
\* Positions a caller passes to set_mic_locs.
CallPos == {PyList(1), NdArray(0)}

\* The mappings a caller passes to set_mic_locs: a dict is its entries in
\* iteration order, with pairwise different keys.
LocsSet ==
    { l \in UNION { [1..n -> [name : CallNames, pos : CallPos]] :
                       n \in 0..Cardinality(CallNames) } :
        \A i, j \in DOMAIN l : l[i].name = l[j].name => i = j }

\* ------------------------------------------------------------ JSON input
Params == {"name", "fS", "pos"}

Restrict(r, D) == [k \in D |-> r[k]]

\* Every JSON object over the given values, with any subset of the three keys.
JsonObjs(names, freqs) ==
    { Restrict(r, D) : r \in [name : names, fS : freqs, pos : JsonPos],
                       D \in SUBSET Params }

\* Every JSON array of at most MaxMics such objects.
JsonArrays(names, freqs) ==
    UNION { [1..n -> JsonObjs(names, freqs)] : n \in 0..MaxMics }

\* ------------------------------------------------------------------- Mic
\* np.array(x) builds a fresh numpy array holding the elements of x, whether x
\* is a list or an array; nothing is shared with x.
np_array(x) == NdArray(x[2])

\* Mutant: pos is not among the required parameters.
required_params_fS_only == <<"fS">>

required_params == <<"fS", "pos">>

\* The loop of Mic.__init__ over required_params: the first missing one raises.
RECURSIVE CheckParams(_, _)
CheckParams(json_mic_obj, i) ==
    IF i > Len(required_params) THEN ""
    ELSE IF required_params[i] \notin DOMAIN json_mic_obj THEN "ConfigError"
    ELSE CheckParams(json_mic_obj, i + 1)

\* Mic.__init__: raised is "" or the exception, self the attributes set so
\* far.  json_mic_obj["fS"] and json_mic_obj["pos"] raise KeyError on a
\* missing key.
MicInit(json_mic_obj, default_name) ==
    LET s0 == [k \in {} |-> 0]
        s1 == [k \in {"name"} |->
                 IF "name" \in DOMAIN json_mic_obj THEN json_mic_obj["name"]
                 ELSE default_name]
        s2 == [k \in {"name", "fS"} |->
                 IF k = "fS" THEN json_mic_obj["fS"] ELSE s1[k]]
        s3 == [k \in {"name", "fS", "pos"} |->
                 IF k = "pos" THEN np_array(json_mic_obj["pos"]) ELSE s2[k]]
    IN  IF CheckParams(json_mic_obj, 1) # ""
        THEN [raised |-> CheckParams(json_mic_obj, 1), self |-> s0]
        ELSE IF "fS" \notin DOMAIN json_mic_obj
        THEN [raised |-> "KeyError", self |-> s1]
        ELSE IF "pos" \notin DOMAIN json_mic_obj
        THEN [raised |-> "KeyError", self |-> s2]
        ELSE [raised |-> "", self |-> s3]

\* ---------------------------------------------------------------- state
VARIABLES
    cfg,          \* the parsed content of the file cfg_fname (json.load)
    phase,        \* "new" before MicArray(cfg_fname), then "ready" or "failed"
    nChannels,    \* MicArray.nChannels
    mics,         \* MicArray.mics
    valid_names,  \* MicArray.valid_names
    name_to_mic,  \* MicArray.name_to_mic: name -> position of the Mic in mics
    call,         \* the last call made: method and arguments
    ret,          \* its outcome: the exception raised ("" if none), the value
    raised_self   \* the attributes of the Mic whose __init__ raised

vars == <<cfg, phase, nChannels, mics, valid_names, name_to_mic, call, ret,
          raised_self>>

Unset == <<"unset", 0>>
NoAttrs == [k \in {} |-> 0]
NoDict == [k \in {} |-> 0]

Call(method, name, locs) == [method |-> method, name |-> name, locs |-> locs]
Returned(val) == [raised |-> "", val |-> val]
Raised(exc) == [raised |-> exc, val |-> PyNone]

\* Mutant: each Mic is inserted at the front of the list.
RECURSIVE LoadMicsPrepend(_, _, _)
LoadMicsPrepend(data, i, acc) ==
    IF i > Len(data) THEN [raised |-> "", mics |-> acc, self |-> NoAttrs]
    ELSE LET m == MicInit(data[i], PyNone)
         IN  IF m.raised # ""
             THEN [raised |-> m.raised, mics |-> acc, self |-> m.self]
             ELSE LoadMicsPrepend(data, i + 1, <<m.self>> \o acc)

\* _load_cfg's loop: append Mic(json_mic_obj) for each object of data, in
\* order; an exception of Mic.__init__ ends the loop and propagates.
RECURSIVE LoadMics(_, _, _)
LoadMics(data, i, acc) ==
    IF i > Len(data) THEN [raised |-> "", mics |-> acc, self |-> NoAttrs]
    ELSE LET m == MicInit(data[i], PyNone)
         IN  IF m.raised # ""
             THEN [raised |-> m.raised, mics |-> acc, self |-> m.self]
             ELSE LoadMics(data, i + 1, Append(acc, m.self))

\* Mutant: the first mic of a name keeps the key.
RECURSIVE BuildNameToMicFirst(_, _, _)
BuildNameToMicFirst(ms, i, d) ==
    IF i > Len(ms) THEN d
    ELSE BuildNameToMicFirst(ms, i + 1,
            [n \in DOMAIN d \cup {ms[i].name} |->
                IF n \in DOMAIN d THEN d[n] ELSE i])

\* {mic.name: mic for mic in self.mics}: entries are inserted in list order,
\* a later entry with an equal key replaces the value.
RECURSIVE BuildNameToMic(_, _, _)
BuildNameToMic(ms, i, d) ==
    IF i > Len(ms) THEN d
    ELSE BuildNameToMic(ms, i + 1,
            [n \in DOMAIN d \cup {ms[i].name} |->
                IF n = ms[i].name THEN i ELSE d[n]])

InitWith(names, freqs) ==
    /\ cfg \in JsonArrays(names, freqs)
    /\ phase = "new"
    /\ nChannels = 0
    /\ mics = << >>
    /\ valid_names = Unset
    /\ name_to_mic = NoDict
    /\ call = Call("", PyNone, << >>)
    /\ ret = Returned(PyNone)
    /\ raised_self = NoAttrs

Init == InitWith(JsonNames, OneFreq)

\* MicArray.__init__ (with _load_cfg).
MicArrayInit ==
    /\ phase = "new"
    /\ LET l == LoadMics(cfg, 1, << >>)
       IN  /\ nChannels' = Len(cfg)
           /\ mics' = l.mics
           /\ raised_self' = l.self
           /\ IF l.raised # ""
              THEN /\ phase' = "failed"
                   /\ ret' = Raised(l.raised)
                   /\ UNCHANGED <<valid_names, name_to_mic>>
              ELSE /\ phase' = "ready"
                   /\ ret' = Returned(PyNone)
                   /\ valid_names' = PyNone
                   /\ name_to_mic' = BuildNameToMic(l.mics, 1, NoDict)
    /\ call' = Call("__init__", PyNone, << >>)
    /\ UNCHANGED cfg

\* Mutant: the names seen are never recorded.
RECURSIVE ValidateLoopNoAdd(_, _, _)
ValidateLoopNoAdd(ms, i, names) ==
    IF i > Len(ms) THEN PyTrue
    ELSE IF ms[i].name = PyNone \/ ms[i].name \in names THEN PyFalse
    ELSE ValidateLoopNoAdd(ms, i + 1, names)

\* Mutant: only the name of the previous mic is remembered.
RECURSIVE ValidateLoopPrevious(_, _, _)
ValidateLoopPrevious(ms, i, names) ==
    IF i > Len(ms) THEN PyTrue
    ELSE IF ms[i].name = PyNone \/ ms[i].name \in names THEN PyFalse
    ELSE ValidateLoopPrevious(ms, i + 1, {ms[i].name})

\* The loop of validate_names, names being the set of names seen so far.
RECURSIVE ValidateLoop(_, _, _)
ValidateLoop(ms, i, names) ==
    IF i > Len(ms) THEN PyTrue
    ELSE IF ms[i].name = PyNone \/ ms[i].name \in names THEN PyFalse
    ELSE ValidateLoop(ms, i + 1, names \cup {ms[i].name})

validate_names ==
    /\ phase = "ready"
    /\ valid_names' = ValidateLoop(mics, 1, {})
    /\ ret' = Returned(valid_names')
    /\ call' = Call("validate_names", PyNone, << >>)
    /\ UNCHANGED <<cfg, phase, nChannels, mics, name_to_mic, raised_self>>

\* Mutant: the names count from 1.
RECURSIVE GenLoopFromOne(_, _)
GenLoopFromOne(ms, i) ==
    IF i > Len(ms) THEN ms
    ELSE GenLoopFromOne([ms EXCEPT ![i] = [@ EXCEPT !["name"] = PyInt(i)]], i + 1)

\* The loop of gen_names: enumerate counts from 0.
RECURSIVE GenLoop(_, _)
GenLoop(ms, i) ==
    IF i > Len(ms) THEN ms
    ELSE GenLoop([ms EXCEPT ![i] = [@ EXCEPT !["name"] = PyInt(i - 1)]], i + 1)

\* Mutant: gen_names rebuilds name_to_mic from the new names.
gen_names_refresh ==
    /\ phase = "ready"
    /\ mics' = GenLoop(mics, 1)
    /\ name_to_mic' = BuildNameToMic(mics', 1, NoDict)
    /\ ret' = Returned(PyNone)
    /\ call' = Call("gen_names", PyNone, << >>)
    /\ UNCHANGED <<cfg, phase, nChannels, valid_names, raised_self>>

gen_names ==
    /\ phase = "ready"
    /\ mics' = GenLoop(mics, 1)
    /\ ret' = Returned(PyNone)
    /\ call' = Call("gen_names", PyNone, << >>)
    /\ UNCHANGED <<cfg, phase, nChannels, valid_names, name_to_mic, raised_self>>

\* Mutant: a mismatch resets rval and the loop goes on.
RECURSIVE FreqLoopReset(_, _, _)
FreqLoopReset(ms, i, rval) ==
    IF i > Len(ms) THEN rval
    ELSE IF rval # PyNone /\ rval # PyInt(ms[i].fS)
    THEN FreqLoopReset(ms, i + 1, PyNone)
    ELSE FreqLoopReset(ms, i + 1, PyInt(ms[i].fS))

\* The loop of get_sample_freq.
RECURSIVE FreqLoop(_, _, _)
FreqLoop(ms, i, rval) ==
    IF i > Len(ms) THEN rval
    ELSE IF rval # PyNone /\ rval # PyInt(ms[i].fS) THEN PyNone
    ELSE FreqLoop(ms, i + 1, PyInt(ms[i].fS))

get_sample_freq ==
    /\ phase = "ready"
    /\ ret' = Returned(FreqLoop(mics, 1, PyNone))
    /\ call' = Call("get_sample_freq", PyNone, << >>)
    /\ UNCHANGED <<cfg, phase, nChannels, mics, valid_names, name_to_mic,
                   raised_self>>

\* MicArray.__contains__: name in self.name_to_mic.
name_in(d, name) == name \in DOMAIN d

\* A membership test `name in array`.
contains(name) ==
    /\ phase = "ready"
    /\ ret' = Returned(IF name_in(name_to_mic, name) THEN PyTrue ELSE PyFalse)
    /\ call' = Call("__contains__", name, << >>)
    /\ UNCHANGED <<cfg, phase, nChannels, mics, valid_names, name_to_mic,
                   raised_self>>

\* Mutant: an unknown name is skipped and the loop goes on.
RECURSIVE SetLoopSkip(_, _, _, _)
SetLoopSkip(ms, d, locs, k) ==
    IF k > Len(locs) THEN [raised |-> "", mics |-> ms]
    ELSE IF name_in(d, locs[k].name)
    THEN SetLoopSkip([ms EXCEPT ![d[locs[k].name]] =
                         [@ EXCEPT !["pos"] = np_array(locs[k].pos)]],
                     d, locs, k + 1)
    ELSE SetLoopSkip(ms, d, locs, k + 1)

\* The loop of set_mic_locs over locs.items().
RECURSIVE SetLoop(_, _, _, _)
SetLoop(ms, d, locs, k) ==
    IF k > Len(locs) THEN [raised |-> "", mics |-> ms]
    ELSE IF name_in(d, locs[k].name)
    THEN SetLoop([ms EXCEPT ![d[locs[k].name]] =
                     [@ EXCEPT !["pos"] = np_array(locs[k].pos)]],
                 d, locs, k + 1)
    ELSE [raised |-> "InvalidInput", mics |-> ms]

set_mic_locs(locs) ==
    /\ phase = "ready"
    /\ LET r == SetLoop(mics, name_to_mic, locs, 1)
       IN  /\ mics' = r.mics
           /\ ret' = IF r.raised # "" THEN Raised(r.raised) ELSE Returned(PyNone)
    /\ call' = Call("set_mic_locs", PyNone, locs)
    /\ UNCHANGED <<cfg, phase, nChannels, valid_names, name_to_mic, raised_self>>

Next ==
    \/ MicArrayInit
    \/ validate_names
    \/ gen_names
    \/ get_sample_freq
    \/ \E name \in CallNames : contains(name)
    \/ \E locs \in LocsSet : set_mic_locs(locs)

Spec == Init /\ [][Next]_vars

\* The same program on configuration files whose sample rates differ.
InitFreq == InitWith(OneName, FreqSet)

SpecFreq == InitFreq /\ [][Next]_vars

\* ------------------------------------------------- vocabulary of the claims
\* The step just taken was a call of this method.
Called(method) == call'.method = method

Indices(ms) == 1..Len(ms)

\* Every mic has a name and no two mics share one.
NamesValid(ms) ==
    /\ \A i \in Indices(ms) : ms[i].name # PyNone
    /\ \A i, j \in Indices(ms) : ms[i].name = ms[j].name => i = j

\* The JSON object has both required fields.
WellFormed(obj) == "fS" \in DOMAIN obj /\ "pos" \in DOMAIN obj

\* The name the Mic of a well-formed JSON object has at construction.
CfgName(obj) == IF "name" \in DOMAIN obj THEN obj["name"] ELSE PyNone

\* The Mic a well-formed JSON object describes.
MicOf(obj) ==
    [name |-> CfgName(obj), fS |-> obj["fS"], pos |-> NdArray(obj["pos"][2])]

\* The greatest position in cfg whose object carries the name n.
LastNamed(n) ==
    CHOOSE i \in DOMAIN cfg :
        /\ CfgName(cfg[i]) = n
        /\ \A j \in DOMAIN cfg : CfgName(cfg[j]) = n => j <= i

\* The position in locs of the first name that is no key of d, or
\* Len(locs) + 1 when every name is a key.
FirstAbsent(d, locs) ==
    CHOOSE k \in 1..(Len(locs) + 1) :
        /\ k <= Len(locs) => locs[k].name \notin DOMAIN d
        /\ \A j \in 1..(k - 1) : locs[j].name \in DOMAIN d

\* ------------------------------------------------------------------ claims
\* C1: validate_names() returns True if and only if every mic's name is
\* non-None and no two mics share a name, and False otherwise; the value
\* returned is also the value stored in valid_names.
C1_ValidateNames ==
    [][Called("validate_names") =>
        /\ ret'.raised = ""
        /\ ret'.val = (IF NamesValid(mics) THEN PyTrue ELSE PyFalse)
        /\ valid_names' = ret'.val]_vars

\* validate_names returned False on three mics of which the first and the
\* third share a name and the second has another name.
C1_Witness ==
    /\ call.method = "validate_names"
    /\ ret.val = PyFalse
    /\ Len(mics) = 3
    /\ mics[1].name = mics[3].name
    /\ mics[1].name # PyNone
    /\ mics[2].name \notin {PyNone, mics[1].name}

\* C2: get_sample_freq() returns the common fS when there is at least one
\* mic and all mics have the same fS, returns None when two mics (anywhere
\* in the list) differ in fS or the list is empty, and changes no state.
C2_GetSampleFreq ==
    [][Called("get_sample_freq") =>
        /\ ret'.raised = ""
        /\ ret'.val =
             (IF mics # << >> /\ \A i, j \in Indices(mics) : mics[i].fS = mics[j].fS
              THEN PyInt(mics[1].fS) ELSE PyNone)
        /\ UNCHANGED <<cfg, phase, nChannels, mics, valid_names, name_to_mic>>]_vars

\* get_sample_freq returned None on three mics of which only the last
\* differs from the others.
C2_Witness ==
    /\ call.method = "get_sample_freq"
    /\ Len(mics) = 3
    /\ mics[1].fS = mics[2].fS
    /\ mics[3].fS # mics[1].fS
    /\ ret.val = PyNone

\* C3: set_mic_locs(locs) applies the entries of locs in order up to the
\* first name that is no key of name_to_mic: each mic indexed under an
\* earlier name gets the given position, every other position and every
\* other attribute stays, the call raises InvalidInput exactly when there
\* is such a name, and entries after it are not applied.
C3_SetMicLocs ==
    [][Called("set_mic_locs") =>
        LET locs == call'.locs
            f == FirstAbsent(name_to_mic, locs)
            Applied(i) == { k \in 1..(f - 1) : name_to_mic[locs[k].name] = i }
        IN  /\ ret'.raised = (IF f <= Len(locs) THEN "InvalidInput" ELSE "")
            /\ Len(mics') = Len(mics)
            /\ \A i \in Indices(mics) :
                 /\ mics'[i].name = mics[i].name
                 /\ mics'[i].fS = mics[i].fS
                 /\ \A k \in Applied(i) : mics'[i].pos = NdArray(locs[k].pos[2])
                 /\ Applied(i) = {} => mics'[i].pos = mics[i].pos
            /\ UNCHANGED <<cfg, phase, nChannels, valid_names, name_to_mic>>]_vars

\* set_mic_locs raised at the second of three entries: the first entry's
\* position is in place, the third entry names a mic and was not applied.
C3_Witness ==
    /\ call.method = "set_mic_locs"
    /\ ret.raised = "InvalidInput"
    /\ Len(call.locs) = 3
    /\ FirstAbsent(name_to_mic, call.locs) = 2
    /\ mics[name_to_mic[call.locs[1].name]].pos = NdArray(1)
    /\ call.locs[1].pos = PyList(1)
    /\ call.locs[3].name \in DOMAIN name_to_mic
    /\ mics[name_to_mic[call.locs[3].name]].pos # NdArray(call.locs[3].pos[2])

\* C4: after gen_names() the mic at 0-based index i has the name i, whatever
\* the names were, and the mics are the same mics in the same order.
C4_GenNames ==
    [][Called("gen_names") =>
        /\ Len(mics') = Len(mics)
        /\ \A i \in Indices(mics) :
             /\ mics'[i].name = PyInt(i - 1)
             /\ mics'[i].fS = mics[i].fS
             /\ mics'[i].pos = mics[i].pos]_vars

\* gen_names has run on three mics of which the file left the first unnamed
\* and gave the other two the same name, and whose positions differ.
C4_Witness ==
    /\ call.method = "gen_names"
    /\ Len(mics) = 3
    /\ CfgName(cfg[1]) = PyNone
    /\ CfgName(cfg[2]) = CfgName(cfg[3])
    /\ CfgName(cfg[2]) # PyNone
    /\ mics[1].pos # mics[3].pos
    /\ \A i \in Indices(mics) : mics[i].name = PyInt(i - 1)

\* C5: a JSON array of N objects that all contain fS and pos constructs a
\* MicArray with nChannels = len(mics) = N, whose i-th mic is built from the
\* i-th object; nChannels = len(mics) = N stays true under every later call.
C5_Channels ==
    (phase # "new" /\ \A i \in DOMAIN cfg : WellFormed(cfg[i])) =>
        /\ phase = "ready"
        /\ nChannels = Len(cfg)
        /\ Len(mics) = Len(cfg)
        /\ call.method = "__init__" =>
             \A i \in DOMAIN cfg : mics[i] = MicOf(cfg[i])

\* A three-mic array after gen_names and a failing set_mic_locs that applied
\* an entry.
C5_Witness ==
    /\ phase = "ready"
    /\ Len(cfg) = 3
    /\ call.method = "set_mic_locs"
    /\ ret.raised = "InvalidInput"
    /\ mics[1].name = PyInt(0)
    /\ mics[2].name = PyInt(1)
    /\ \E i \in Indices(mics) : mics[i].pos = NdArray(1)

\* C6: a JSON object without fS or without pos makes Mic.__init__ raise
\* ConfigError with no attribute of the Mic set, and a JSON array holding
\* such an object makes the construction of the MicArray raise ConfigError:
\* there is no MicArray, and every Mic built before is complete.
C6_ConfigError ==
    (phase # "new" /\ \E i \in DOMAIN cfg : ~WellFormed(cfg[i])) =>
        /\ phase = "failed"
        /\ ret.raised = "ConfigError"
        /\ DOMAIN raised_self = {}
        /\ \A i \in Indices(mics) : DOMAIN mics[i] = Params
        /\ ~ENABLED (validate_names \/ gen_names \/ get_sample_freq)

\* The construction failed at the third object, which has fS and no pos,
\* after two well-formed objects.
C6_Witness ==
    /\ phase = "failed"
    /\ Len(cfg) = 3
    /\ WellFormed(cfg[1])
    /\ WellFormed(cfg[2])
    /\ "fS" \in DOMAIN cfg[3]
    /\ "pos" \notin DOMAIN cfg[3]
    /\ Len(mics) = 2

\* C7: `name in array` returns True if and only if some mic currently has
\* that name.
C7_ContainsCurrentName ==
    call.method = "__contains__" =>
        (ret.val = PyTrue <=> \E i \in Indices(mics) : mics[i].name = call.name)

C9_LastOccurrence ==
    [][/\ phase' = "ready" =>
            /\ DOMAIN name_to_mic' = { CfgName(cfg'[i]) : i \in DOMAIN cfg' }
            /\ \A n \in DOMAIN name_to_mic' : name_to_mic'[n] = LastNamed(n)'
       /\ Called("set_mic_locs") =>
            /\ \A i \in Indices(mics) :
                 (\E j \in Indices(mics) : j > i /\ CfgName(cfg[j]) = CfgName(cfg[i]))
                     => mics'[i] = mics[i]
            /\ \A k \in 1..(FirstAbsent(name_to_mic, call'.locs) - 1) :
                 mics'[LastNamed(call'.locs[k].name)].pos
                     = NdArray(call'.locs[k].pos[2])]_vars

\* set_mic_locs with one entry for a name the first and the third mic share:
\* the third mic has the new position, the first still the file's.
C9_Witness ==
    /\ call.method = "set_mic_locs"
    /\ Len(call.locs) = 1
    /\ Len(cfg) = 3
    /\ CfgName(cfg[1]) = call.locs[1].name
    /\ CfgName(cfg[3]) = call.locs[1].name
    /\ call.locs[1].pos = PyList(1)
    /\ mics[3].pos = NdArray(1)
    /\ mics[1].pos = NdArray(0)

\* C10: valid_names is None after construction, only validate_names writes
\* it, and whenever it is True the current names of the mics are all
\* non-None and pairwise different.
C10_ValidNamesCache ==
    [][/\ (Called("__init__") /\ phase' = "ready") => valid_names' = PyNone
       /\ (phase = "ready" /\ ~Called("validate_names")) => valid_names' = valid_names
       /\ valid_names' = PyTrue => NamesValid(mics')]_vars

\* valid_names is True and gen_names has since given the mics other names.
C10_Witness ==
    /\ valid_names = PyTrue
    /\ call.method = "gen_names"
    /\ Len(mics) = 2
    /\ CfgName(cfg[1]) = PyStr(1)
    /\ CfgName(cfg[2]) = PyInt(0)
    /\ mics[1].name = PyInt(0)
    /\ mics[2].name = PyInt(1)
====
